---- MODULE Spec2Model ----
(***************************************************************************)
(* A model of ProjectAnalyzer (src/main.py): the ignore rules, the         *)
(* recursive directory scan of analyze_directory, the batched description  *)
(* pipeline of generate_descriptions and the analyze_project driver.       *)
(*                                                                         *)
(* Python strings that the code inspects character by character (entry     *)
(* names, ignore patterns, relative paths, extensions) are sequences of    *)
(* one-character strings; opaque texts (descriptions, messages) are TLA+   *)
(* strings.                                                                *)
(***************************************************************************)
EXTENDS Integers, Sequences, FiniteSets, TLC

VARIABLES
    fs,               \* the file system under the root: see the scenarios
    ignore_folders,   \* analyze_directory's ignore_folders argument
    ignore_patterns,  \* default_ignore plus ignore_folders (lines 151-153)
    pc,               \* where the run is
    exc,              \* the exception in flight or escaped, "none" when none
    stack,            \* the active scan_directory calls, innermost last
    project_info,     \* the project model being built by analyze_directory
    probe,            \* should_ignore's last argument and result
    requests,         \* every collaborator request issued, in order
    natural_description,
    llm_summary,
    dir_order,        \* generate_descriptions: directories still to process
    files_by_dir,     \* generate_descriptions: the groups of line 420-425
    cur,              \* generate_descriptions: the directory being processed
    descriptions,     \* the description map
    output            \* the analysis file: "none" or the report written

vars == << fs, ignore_folders, ignore_patterns, pc, exc, stack,
           project_info, probe, requests, natural_description, llm_summary,
           dir_order, files_by_dir, cur, descriptions, output >>

---------------------------------------------------------------------------
(* Characters and strings *)

\* The characters of the model in code point order (ASCII).
Chars ==
    << " ", "*", "-", ".", "/",
       "0", "1", "2", "3", "4", "5", "6", "7", "8", "9",
       "A", "B", "C", "D", "E", "F", "G", "H", "I", "J", "K", "L", "M",
       "N", "O", "P", "Q", "R", "S", "T", "U", "V", "W", "X", "Y", "Z",
       "_",
       "a", "b", "c", "d", "e", "f", "g", "h", "i", "j", "k", "l", "m",
       "n", "o", "p", "q", "r", "s", "t", "u", "v", "w", "x", "y", "z" >>

CharSet == { Chars[i] : i \in 1..Len(Chars) }

\* ord(c), up to the order-preserving renumbering of the characters above.
Ord == [ c \in CharSet |-> CHOOSE i \in 1..Len(Chars) : Chars[i] = c ]

FirstUpper == Ord["A"]
LastUpper  == Ord["Z"]
CaseGap    == Ord["a"] - Ord["A"]

\* str.lower() on one character
lower_char == [ c \in CharSet |->
                  IF Ord[c] >= FirstUpper /\ Ord[c] <= LastUpper
                  THEN Chars[Ord[c] + CaseGap] ELSE c ]

\* str.lower()
lower(s) == [ i \in 1..Len(s) |-> lower_char[s[i]] ]

\* str.startswith / str.endswith
startswith(s, prefix) ==
    /\ Len(prefix) <= Len(s)
    /\ SubSeq(s, 1, Len(prefix)) = prefix

endswith(s, suffix) ==
    /\ Len(suffix) <= Len(s)
    /\ SubSeq(s, Len(s) - Len(suffix) + 1, Len(s)) = suffix

\* s < t for Python strings: lexicographic by code point
StrLess(s, t) ==
    LET n == IF Len(s) < Len(t) THEN Len(s) ELSE Len(t)
        diff == { i \in 1..n : s[i] # t[i] }
    IN  IF diff = {} THEN Len(s) < Len(t)
        ELSE LET k == CHOOSE i \in diff : \A j \in diff : i <= j
             IN  Ord[s[k]] < Ord[t[k]]

\* the positions of character c in s
Positions(s, c) == { i \in 1..Len(s) : s[i] = c }

Max(S) == CHOOSE x \in S : \A y \in S : y <= x

\* pathlib's PurePath.suffix of a name: from the last dot on, unless the name
\* has no dot, starts with its only dot or ends with a dot.
suffix(name) ==
    LET dots == Positions(name, ".")
    IN  IF dots = {} THEN << >>
        ELSE LET i == Max(dots)
             IN  IF 1 < i /\ i < Len(name)
                 THEN SubSeq(name, i, Len(name)) ELSE << >>

\* os.path.join(a, b) for a non-empty relative a and a plain name b
path_join(a, b) ==
    IF a # << >> /\ a[Len(a)] = "/" THEN a \o b ELSE a \o << "/" >> \o b

\* os.path.dirname(p) for a relative path p without doubled slashes
dirname(p) ==
    LET slashes == Positions(p, "/")
    IN  IF slashes = {} THEN << >> ELSE SubSeq(p, 1, Max(slashes) - 1)

---------------------------------------------------------------------------
(* ProjectAnalyzer.__init__: the fixed tables *)

default_ignore ==
    { <<"_", "_", "p", "y", "c", "a", "c", "h", "e", "_", "_">>,
      <<".", "g", "i", "t">>,
      <<".", "g", "i", "t", "i", "g", "n", "o", "r", "e">>,
      <<".", "D", "S", "_", "S", "t", "o", "r", "e">>,
      <<"n", "o", "d", "e", "_", "m", "o", "d", "u", "l", "e", "s">>,
      <<".", "e", "n", "v">>,
      <<".", "v", "e", "n", "v">>,
      <<"v", "e", "n", "v">>,
      <<"e", "n", "v">>,
      <<".", "p", "y", "t", "e", "s", "t", "_", "c", "a", "c", "h", "e">>,
      <<".", "m", "y", "p", "y", "_", "c", "a", "c", "h", "e">>,
      <<"d", "i", "s", "t">>,
      <<"b", "u", "i", "l", "d">>,
      <<".", "i", "d", "e", "a">>,
      <<".", "v", "s", "c", "o", "d", "e">>,
      <<"*", ".", "p", "y", "c">>,
      <<"*", ".", "p", "y", "o">>,
      <<"*", ".", "p", "y", "d">>,
      <<".", "c", "o", "v", "e", "r", "a", "g", "e">>,
      <<"h", "t", "m", "l", "c", "o", "v">>,
      <<".", "t", "o", "x">>,
      <<".", "c", "a", "c", "h", "e">>,
      <<"e", "g", "g", "s">>,
      <<"*", ".", "e", "g", "g", "-", "i", "n", "f", "o">>,
      <<"l", "o", "g", "s">>,
      <<"*", ".", "l", "o", "g">>,
      <<".", "n", "p", "m">>,
      <<".", "y", "a", "r", "n">>,
      <<"p", "a", "c", "k", "a", "g", "e", "-", "l", "o", "c", "k", ".", "j", "s", "o", "n">>,
      <<"y", "a", "r", "n", ".", "l", "o", "c", "k">> }

code_extensions ==
    { <<".", "p", "y">>,
      <<".", "j", "s">>,
      <<".", "t", "s">>,
      <<".", "t", "s", "x">>,
      <<".", "j", "s", "x">>,
      <<".", "j", "a", "v", "a">>,
      <<".", "c", "p", "p">>,
      <<".", "c">>,
      <<".", "h">>,
      <<".", "c", "s">>,
      <<".", "p", "h", "p">>,
      <<".", "r", "b">>,
      <<".", "g", "o">>,
      <<".", "r", "s">>,
      <<".", "s", "w", "i", "f", "t">>,
      <<".", "k", "t">>,
      <<".", "s", "c", "a", "l", "a">>,
      <<".", "h", "t", "m", "l">>,
      <<".", "c", "s", "s">>,
      <<".", "s", "c", "s", "s">>,
      <<".", "s", "a", "s", "s">>,
      <<".", "l", "e", "s", "s">>,
      <<".", "v", "u", "e">>,
      <<".", "s", "v", "e", "l", "t", "e">>,
      <<".", "s", "q", "l">>,
      <<".", "s", "h">>,
      <<".", "b", "a", "t">>,
      <<".", "p", "s", "1">>,
      <<".", "y", "m", "l">>,
      <<".", "y", "a", "m", "l">>,
      <<".", "j", "s", "o", "n">>,
      <<".", "x", "m", "l">>,
      <<".", "m", "d">>,
      <<".", "r", "s", "t">>,
      <<".", "t", "x", "t">>,
      <<".", "d", "o", "c", "k", "e", "r", "f", "i", "l", "e">>,
      <<".", "c", "o", "n", "f", "i", "g">>,
      <<".", "c", "o", "n", "f">> }

\* lang_map of scan_directory (lines 217-238)
lang_map ==
    (<<".", "p", "y">> :> "Python")
    @@ (<<".", "j", "s">> :> "JavaScript")
    @@ (<<".", "t", "s">> :> "TypeScript")
    @@ (<<".", "t", "s", "x">> :> "TypeScript")
    @@ (<<".", "j", "s", "x">> :> "JavaScript")
    @@ (<<".", "j", "a", "v", "a">> :> "Java")
    @@ (<<".", "c", "p", "p">> :> "C++")
    @@ (<<".", "c">> :> "C")
    @@ (<<".", "c", "s">> :> "C#")
    @@ (<<".", "p", "h", "p">> :> "PHP")
    @@ (<<".", "r", "b">> :> "Ruby")
    @@ (<<".", "g", "o">> :> "Go")
    @@ (<<".", "r", "s">> :> "Rust")
    @@ (<<".", "s", "w", "i", "f", "t">> :> "Swift")
    @@ (<<".", "k", "t">> :> "Kotlin")
    @@ (<<".", "s", "c", "a", "l", "a">> :> "Scala")
    @@ (<<".", "h", "t", "m", "l">> :> "HTML")
    @@ (<<".", "c", "s", "s">> :> "CSS")
    @@ (<<".", "s", "c", "s", "s">> :> "SCSS")
    @@ (<<".", "s", "q", "l">> :> "SQL")

\* ProjectAnalyzer.should_ignore: only the entry's name is lower-cased; the
\* patterns are used as written.
should_ignore(path_name, patterns) ==
    LET name == lower(path_name)
    IN  \/ name \in patterns
        \/ \E pattern \in patterns :
              \/ /\ startswith(pattern, <<"*">>)
                 /\ endswith(name, SubSeq(pattern, 2, Len(pattern)))
              \/ /\ endswith(pattern, <<"*">>)
                 /\ startswith(name, SubSeq(pattern, 1, Len(pattern) - 1))

\* dict.get(key, default)
Get(d, key, default) == IF key \in DOMAIN d THEN d[key] ELSE default

\* ProjectAnalyzer.get_file_info without the absolute path and the content
\* preview: a file whose stat fails gives the record of line 140.
get_file_info(item) ==
    IF item.stat_ok
    THEN [ name      |-> item.name,
           size      |-> item.size,
           extension |-> lower(suffix(item.name)),
           is_code   |-> lower(suffix(item.name)) \in code_extensions ]
    ELSE [ name |-> item.name, error |-> "stat failed" ]

---------------------------------------------------------------------------
(* The file system *)

\* An entry of a directory listing.
File(name, size) == [ name |-> name, is_dir |-> FALSE, size |-> size, stat_ok |-> TRUE ]
BrokenFile(name) == [ name |-> name, is_dir |-> FALSE, size |-> 0, stat_ok |-> FALSE ]
Dir(name)        == [ name |-> name, is_dir |-> TRUE, size |-> 0, stat_ok |-> TRUE ]

Digits == << "0", "1", "2", "3", "4", "5", "6", "7", "8", "9" >>

\* f000.py, f001.py, ...
FileName(i) ==
    << "f", Digits[((i \div 100) % 10) + 1], Digits[((i \div 10) % 10) + 1],
       Digits[(i % 10) + 1],
       ".", "p", "y" >>

NumberedFiles(n) == { File(FileName(i), 1) : i \in 1..n }

\* The entries of the directory at `path` (a sequence of names below the root).
Listing(tree, path) == IF path \in DOMAIN tree.ents THEN tree.ents[path] ELSE {}

\* sorted(current_path.iterdir()): paths of one directory order by name.
SortedEntries(S) ==
    LET ranked == { << Cardinality({ x \in S : StrLess(x.name, e.name) }), e >> : e \in S }
    IN  [ i \in 1..Cardinality(S) |-> (CHOOSE p \in ranked : p[1] = i - 1)[2] ]

---------------------------------------------------------------------------
(* analyze_directory and scan_directory *)

\* The file ceiling of line 198.
MAX_FILES == 500

\* The test of line 198 with >= for >.
too_many_files_at_ceiling(total_files) == total_files >= MAX_FILES

\* line 198: the test made after total_files is incremented
too_many_files(total_files) == total_files > MAX_FILES

\* A handler that catches every exception.
scan_handler_catches_all(e) == e # "none"

\* A handler that catches nothing.
scan_handler_catches_nothing(e) == e = "none"

\* line 253: the only exception scan_directory's handler catches
scan_handler_catches(e) == e = "PermissionError"

\* lines 155-169
NewProjectInfo(name) ==
    [ project_name |-> name,
      structure    |-> << >>,
      files        |-> << >>,
      directories  |-> << >>,
      statistics   |-> [ total_files       |-> 0,
                         total_directories |-> 0,
                         code_files        |-> 0,
                         total_size        |-> 0,
                         file_types        |-> << >>,
                         languages         |-> {} ] ]

\* A call of scan_directory(current_path, relative_path): `listed` once line
\* 174 has listed the directory, `pending` the sorted entries not yet visited,
\* `items` the local list the call returns.
Frame(current_path, relative_path) ==
    [ current_path  |-> current_path,
      relative_path |-> relative_path,
      listed        |-> FALSE,
      pending       |-> << >>,
      items         |-> << >> ]

Top == stack[Len(stack)]

SetTop(frame) == [ stack EXCEPT ![Len(stack)] = frame ]

\* The test of line 175 made for files only.
skipped_files_only(item, patterns) == ~item.is_dir /\ should_ignore(item.name, patterns)

\* lines 175-176: the entries the loop passes over
skipped(item, patterns) == should_ignore(item.name, patterns)

\* analyze_project going on after a failed scan.
scan_error_ignored == "scanned"

\* line 554: analyze_project calls analyze_directory outside any try, so an
\* exception that leaves analyze_directory ends the run
scan_error_exit == "failed"

\* lines 178-182
item_relative(relative_path, name) ==
    IF relative_path # << >> THEN path_join(relative_path, name) ELSE name

\* lines 145-149: the root does not exist or is not a directory
AnalyzeDirectoryMissing ==
    /\ pc = "start"
    /\ ~fs.is_dir
    /\ exc' = "FileNotFoundError"
    /\ pc' = scan_error_exit
    /\ UNCHANGED << fs, ignore_folders, ignore_patterns, stack, project_info, probe,
                    requests, natural_description, llm_summary, dir_order,
                    files_by_dir, cur, descriptions, output >>

\* lines 145-169 and the call of line 257
AnalyzeDirectory ==
    /\ pc = "start"
    /\ fs.is_dir
    /\ ignore_patterns' = default_ignore \cup ignore_folders
    /\ project_info' = NewProjectInfo(fs.name)
    /\ stack' = << Frame(<< >>, << >>) >>
    /\ pc' = "scan"
    /\ UNCHANGED << fs, ignore_folders, exc, probe, requests, natural_description,
                    llm_summary, dir_order, files_by_dir, cur, descriptions, output >>

\* line 174: list and sort the directory; listing an unreadable directory
\* raises PermissionError inside the try
ListDirectory ==
    /\ pc = "scan"
    /\ stack # << >>
    /\ ~Top.listed
    /\ IF Top.current_path \in fs.unreadable
       THEN /\ exc' = "PermissionError"
            /\ pc' = "except"
            /\ UNCHANGED stack
       ELSE /\ stack' = SetTop([ Top EXCEPT
                                   !.listed = TRUE,
                                   !.pending = SortedEntries(Listing(fs, Top.current_path)) ])
            /\ UNCHANGED << exc, pc >>
    /\ UNCHANGED << fs, ignore_folders, ignore_patterns, project_info, probe, requests,
                    natural_description, llm_summary, dir_order, files_by_dir, cur,
                    descriptions, output >>

\* lines 253-255 and the propagation out of a call: an exception raised in the
\* try of the innermost call is either caught there, and the call returns the
\* items it has, or leaves the call and continues in the caller's try (the
\* call of line 187), or leaves analyze_directory (the call of line 257).
ScanExcept ==
    /\ pc = "except"
    /\ stack # << >>
    /\ IF scan_handler_catches(exc)
       THEN /\ stack' = SetTop([ Top EXCEPT !.listed = TRUE, !.pending = << >> ])
            /\ exc' = "none"
            /\ pc' = "scan"
       ELSE /\ stack' = SubSeq(stack, 1, Len(stack) - 1)
            /\ pc' = IF Len(stack) = 1 THEN scan_error_exit ELSE "except"
            /\ UNCHANGED exc
    /\ UNCHANGED << fs, ignore_folders, ignore_patterns, project_info, probe, requests,
                    natural_description, llm_summary, dir_order, files_by_dir, cur,
                    descriptions, output >>

\* The entry the loop of line 174 is at.
AtItem ==
    /\ pc = "scan"
    /\ stack # << >>
    /\ Top.listed
    /\ Top.pending # << >>

Item == Head(Top.pending)

\* lines 175-176
SkipIgnored ==
    /\ AtItem
    /\ skipped(Item, ignore_patterns)
    /\ stack' = SetTop([ Top EXCEPT !.pending = Tail(@) ])
    /\ UNCHANGED << fs, ignore_folders, ignore_patterns, pc, exc, project_info, probe,
                    requests, natural_description, llm_summary, dir_order,
                    files_by_dir, cur, descriptions, output >>

\* lines 184-187: count and record the directory, then call scan_directory
EnterDirectory ==
    /\ AtItem
    /\ ~skipped(Item, ignore_patterns)
    /\ Item.is_dir
    /\ LET rel == item_relative(Top.relative_path, Item.name)
       IN  /\ project_info' =
                [ project_info EXCEPT
                    !.statistics.total_directories = @ + 1,
                    !.directories = Append(@, rel) ]
           /\ stack' = Append(stack, Frame(Append(Top.current_path, Item.name), rel))
    /\ UNCHANGED << fs, ignore_folders, ignore_patterns, pc, exc, probe, requests,
                    natural_description, llm_summary, dir_order, files_by_dir, cur,
                    descriptions, output >>

\* line 255 and lines 188-195: the call returns its items and the caller
\* appends the directory node
ReturnFromDirectory ==
    /\ pc = "scan"
    /\ Len(stack) > 1
    /\ Top.listed
    /\ Top.pending = << >>
    /\ LET caller == stack[Len(stack) - 1]
           node == [ name  |-> Head(caller.pending).name,
                     type  |-> "directory",
                     path  |-> Top.relative_path,
                     items |-> Top.items ]
       IN  stack' = [ SubSeq(stack, 1, Len(stack) - 1) EXCEPT
                        ![Len(stack) - 1] =
                            [ caller EXCEPT !.items = Append(@, node),
                                            !.pending = Tail(@) ] ]
    /\ UNCHANGED << fs, ignore_folders, ignore_patterns, pc, exc, project_info, probe,
                    requests, natural_description, llm_summary, dir_order,
                    files_by_dir, cur, descriptions, output >>

\* lines 197-201: the file that takes the count over the ceiling
ScanFileOverflow ==
    /\ AtItem
    /\ ~skipped(Item, ignore_patterns)
    /\ ~Item.is_dir
    /\ too_many_files(project_info.statistics.total_files + 1)
    /\ project_info' = [ project_info EXCEPT !.statistics.total_files = @ + 1 ]
    /\ exc' = "ValueError"
    /\ pc' = "except"
    /\ UNCHANGED << fs, ignore_folders, ignore_patterns, stack, probe, requests,
                    natural_description, llm_summary, dir_order, files_by_dir, cur,
                    descriptions, output >>

\* lines 197-252: a file within the ceiling
ScanFile ==
    /\ AtItem
    /\ ~skipped(Item, ignore_patterns)
    /\ ~Item.is_dir
    /\ ~too_many_files(project_info.statistics.total_files + 1)
    /\ LET rel       == item_relative(Top.relative_path, Item.name)
           file_info == get_file_info(Item) @@ [ relative_path |-> rel ]
           ext       == Get(file_info, "extension", << >>)
           stats     == project_info.statistics
           node      == [ name      |-> Item.name,
                          type      |-> "file",
                          path      |-> rel,
                          size      |-> Get(file_info, "size", 0),
                          extension |-> ext ]
       IN  /\ project_info' =
                [ project_info EXCEPT
                    !.files = Append(@, file_info),
                    !.statistics =
                        [ stats EXCEPT
                            !.total_files = @ + 1,
                            !.total_size = @ + Get(file_info, "size", 0),
                            !.file_types =
                                IF ext # << >>
                                THEN (ext :> (Get(stats.file_types, ext, 0) + 1)) @@ @
                                ELSE @,
                            !.code_files =
                                IF Get(file_info, "is_code", FALSE) THEN @ + 1 ELSE @,
                            !.languages =
                                IF Get(file_info, "is_code", FALSE) /\ ext \in DOMAIN lang_map
                                THEN @ \cup { lang_map[ext] } ELSE @ ] ]
           /\ stack' = SetTop([ Top EXCEPT !.items = Append(@, node),
                                           !.pending = Tail(@) ])
    /\ UNCHANGED << fs, ignore_folders, ignore_patterns, pc, exc, probe, requests,
                    natural_description, llm_summary, dir_order, files_by_dir, cur,
                    descriptions, output >>

\* lines 257-261: the outermost call returns the structure
FinishScan ==
    /\ pc = "scan"
    /\ Len(stack) = 1
    /\ Top.listed
    /\ Top.pending = << >>
    /\ project_info' = [ project_info EXCEPT !.structure = Top.items ]
    /\ stack' = << >>
    /\ pc' = "scanned"
    /\ UNCHANGED << fs, ignore_folders, ignore_patterns, exc, probe, requests,
                    natural_description, llm_summary, dir_order, files_by_dir, cur,
                    descriptions, output >>

NextScan ==
    \/ AnalyzeDirectoryMissing
    \/ AnalyzeDirectory
    \/ ListDirectory
    \/ ScanExcept
    \/ SkipIgnored
    \/ EnterDirectory
    \/ ReturnFromDirectory
    \/ ScanFileOverflow
    \/ ScanFile
    \/ FinishScan

---------------------------------------------------------------------------
(* The collaborator's responses *)

\* The value of a parsed JSON document: an array, or an object with fields.
JsonArray == [ type |-> "array" ]
JsonObject(fields) == [ type |-> "object", fields |-> fields ]

\* The text between the fence markers: empty, not JSON, or a JSON document.
EmptyBody == [ kind |-> "empty" ]
InvalidBody == [ kind |-> "invalid" ]
JsonBody(value) == [ kind |-> "json", value |-> value ]

\* A collaborator call that raises, a response without a ```json block, and a
\* response with one.
Raises(e) == [ raises |-> TRUE, error |-> e ]
PlainText == [ raises |-> FALSE, fenced |-> FALSE ]
Fenced(body) == [ raises |-> FALSE, fenced |-> TRUE, body |-> body ]

None == [ kind |-> "None" ]

\* ProjectAnalyzer.extract_json_from_markdown: group 1 of the first fenced
\* block, None when there is no block
extract_json_from_markdown(response) ==
    IF response.fenced THEN response.body ELSE None

\* Python truth of extract_json_from_markdown's result (line 474): None and the
\* empty string are false
truthy(content) == content.kind \notin { "None", "empty" }

\* json.loads raises JSONDecodeError on text that is not JSON
json_invalid(content) == content.kind # "json"

json_loads(content) == content.value

is_dict(value) == value.type = "object"

\* The fallback strings of lines 487-510.
MISSING_JSON == "Description unavailable due to missing JSON"
JSON_PARSING_ERROR == "Description unavailable due to JSON parsing error"
UNEXPECTED_ERROR == "Description unavailable due to unexpected error"

Fallbacks == { MISSING_JSON, JSON_PARSING_ERROR, UNEXPECTED_ERROR }

\* The clauses without the one of line 504: only JSON errors are taken.
desc_handler_json_only(e) ==
    IF e = "JSONDecodeError" THEN JSON_PARSING_ERROR ELSE "none"

\* lines 493 and 504: the except clause that takes exception e, "none" if no
\* clause does
desc_handler(e) ==
    IF e = "JSONDecodeError" THEN JSON_PARSING_ERROR ELSE UNEXPECTED_ERROR

\* lines 487, 496 and 506: the directory description after a failed batch
failed_dir_description(dir_description, fallback) == fallback

\* Lines 478-481 without the test of line 478: every parsed batch sets it.
parsed_dir_description_always(dir_description, dir_data) ==
    Get(dir_data.fields, "directory_description", "Description unavailable")

\* lines 478-481: the directory description after a parsed batch
parsed_dir_description(dir_description, dir_data) ==
    IF dir_description = ""
    THEN Get(dir_data.fields, "directory_description", "Description unavailable")
    ELSE dir_description

\* dict.update(new): new @@ old
Update(old, new) == new @@ old

\* lines 482-484: the pairs of a parsed block keyed by directory/filename
parsed_file_descriptions(dir_path, files) ==
    [ p \in { path_join(dir_path, fn) : fn \in DOMAIN files } |->
        files[CHOOSE fn \in DOMAIN files : path_join(dir_path, fn) = p] ]

\* lines 488-492, 499-503, 507-511: every file of the batch gets the fallback
fallback_file_descriptions(dir_path, batch, fallback) ==
    [ p \in { path_join(dir_path, batch[i]) : i \in 1..Len(batch) } |-> fallback ]

---------------------------------------------------------------------------
(* generate_descriptions *)

ROOT == <<"r", "o", "o", "t">>

\* line 433
batch_size == 10

\* line 422
dir_key(file_info) ==
    LET d == dirname(file_info.relative_path) IN IF d = << >> THEN ROOT ELSE d

\* lines 420-425: the groups in first-seen order
RECURSIVE group_files(_, _)
group_files(files, acc) ==
    IF files = << >> THEN acc
    ELSE LET f == Head(files)
             d == dir_key(f)
         IN  group_files(Tail(files),
                         IF d \in DOMAIN acc.groups
                         THEN [ acc EXCEPT !.groups[d] = Append(@, f) ]
                         ELSE [ keys   |-> Append(acc.keys, d),
                                groups |-> (d :> << f >>) @@ acc.groups ])

NoGroups == [ keys |-> << >>, groups |-> << >> ]

\* The loop of line 427 without its second list: only directories with files.
directory_order_with_files(groups, directories) == groups.keys

\* lines 427-429: the directories the loop visits, in order
directory_order(groups, directories) ==
    groups.keys \o SelectSeq(directories, LAMBDA d : d \notin DOMAIN groups.groups)

\* Batches cut one name later than those of lines 434-437.
file_batches_cut_late(file_list) ==
    [ k \in 1..((Len(file_list) + batch_size) \div (batch_size + 1)) |->
        SubSeq(file_list, (k - 1) * (batch_size + 1) + 1,
               IF k * (batch_size + 1) < Len(file_list)
               THEN k * (batch_size + 1) ELSE Len(file_list)) ]

\* lines 434-437
file_batches(file_list) ==
    [ k \in 1..((Len(file_list) + batch_size - 1) \div batch_size) |->
        SubSeq(file_list, (k - 1) * batch_size + 1,
               IF k * batch_size < Len(file_list) THEN k * batch_size ELSE Len(file_list)) ]

\* What the collaborator may answer to a request for `batch`.
AllFiles(batch, text) == [ fn \in { batch[i] : i \in 1..Len(batch) } |-> text ]
AllButLast(batch, text) == [ fn \in { batch[i] : i \in 1..(Len(batch) - 1) } |-> text ]

Responses(batch) ==
    { Raises("TimeoutError"),
      PlainText,
      Fenced(EmptyBody),
      Fenced(InvalidBody),
      Fenced(JsonBody(JsonArray)),
      Fenced(JsonBody(JsonObject(
          [ directory_description |-> "directory text A",
            files |-> JsonObject(AllFiles(batch, "file text A")) ]))),
      Fenced(JsonBody(JsonObject(
          [ directory_description |-> "directory text B",
            files |-> JsonObject(AllFiles(batch, "file text B")) ]))),
      Fenced(JsonBody(JsonObject(
          [ directory_description |-> "",
            files |-> JsonObject(AllButLast(batch, "file text A")) ]))),
      Fenced(JsonBody(JsonObject(
          [ directory_description |-> "directory text C",
            files |-> JsonObject((<<"a", ".", "p", "y">> :> "file text C")
                                 @@ (FileName(1) :> "file text C")) ]))),
      Fenced(JsonBody(JsonObject(
          [ directory_description |-> "directory text A", files |-> JsonArray ]))),
      Fenced(JsonBody(JsonObject(<< >>))) }

\* The request of lines 463-468 and its answer.
Request(kind, directory, batch, response) ==
    [ kind |-> kind, directory |-> directory, file_list |-> batch, response |-> response ]

\* lines 565-568 with generate_readme true, then lines 419-429
GenerateDescriptions ==
    /\ pc = "readme"
    /\ descriptions' = [ directories |-> << >>, files |-> << >> ]
    /\ files_by_dir' = group_files(project_info.files, NoGroups)
    /\ dir_order' = directory_order(files_by_dir', project_info.directories)
    /\ pc' = "directories"
    /\ UNCHANGED << fs, ignore_folders, ignore_patterns, exc, stack, project_info, probe,
                    requests, natural_description, llm_summary, cur, output >>

\* lines 565-566 with generate_readme false
SkipDescriptions ==
    /\ pc = "readme"
    /\ descriptions' = << >>
    /\ pc' = "described"
    /\ UNCHANGED << fs, ignore_folders, ignore_patterns, exc, stack, project_info, probe,
                    requests, natural_description, llm_summary, dir_order, files_by_dir,
                    cur, output >>

\* lines 427-440: the next directory of the loop
StartDirectory ==
    /\ pc = "directories"
    /\ dir_order # << >>
    /\ LET dir_path == Head(dir_order)
           group == Get(files_by_dir.groups, dir_path, << >>)
           file_list == [ i \in 1..Len(group) |-> group[i].name ]
       IN  cur' = [ dir_path          |-> dir_path,
                    file_batches      |-> file_batches(file_list),
                    dir_description   |-> "",
                    file_descriptions |-> << >> ]
    /\ dir_order' = Tail(dir_order)
    /\ pc' = "batches"
    /\ UNCHANGED << fs, ignore_folders, ignore_patterns, exc, stack, project_info, probe,
                    requests, natural_description, llm_summary, files_by_dir,
                    descriptions, output >>

AtBatch ==
    /\ pc = "batches"
    /\ cur.file_batches # << >>

Batch == Head(cur.file_batches)

\* The except clauses of lines 493-511 for exception e raised in the try of
\* the batch answered by response: the batch's fallback, or the exception
\* leaves generate_descriptions when no clause takes it.
BatchExcept(e, response) ==
    /\ requests' = Append(requests, Request("descriptions", cur.dir_path, Batch, response))
    /\ IF desc_handler(e) = "none"
       THEN /\ exc' = e
            /\ pc' = "failed"
            /\ UNCHANGED cur
       ELSE /\ cur' = [ cur EXCEPT
                          !.dir_description = failed_dir_description(@, desc_handler(e)),
                          !.file_descriptions =
                              Update(@, fallback_file_descriptions(cur.dir_path, Batch,
                                                                   desc_handler(e))),
                          !.file_batches = Tail(@) ]
            /\ UNCHANGED << exc, pc >>
    /\ UNCHANGED << fs, ignore_folders, ignore_patterns, stack, project_info, probe,
                    natural_description, llm_summary, dir_order, files_by_dir,
                    descriptions, output >>

\* lines 461-484: the response holds a JSON object with a files object
BatchParsed ==
    /\ AtBatch
    /\ \E response \in Responses(Batch) :
          /\ ~response.raises
          /\ truthy(extract_json_from_markdown(response))
          /\ ~json_invalid(extract_json_from_markdown(response))
          /\ LET dir_data == json_loads(extract_json_from_markdown(response))
             IN  /\ is_dict(dir_data)
                 /\ is_dict(Get(dir_data.fields, "files", JsonObject(<< >>)))
                 /\ cur' = [ cur EXCEPT
                               !.dir_description = parsed_dir_description(@, dir_data),
                               !.file_descriptions =
                                   Update(@, parsed_file_descriptions(
                                                 cur.dir_path,
                                                 Get(dir_data.fields, "files",
                                                     JsonObject(<< >>)).fields)),
                               !.file_batches = Tail(@) ]
          /\ requests' = Append(requests,
                                Request("descriptions", cur.dir_path, Batch, response))
    /\ UNCHANGED << fs, ignore_folders, ignore_patterns, pc, exc, stack, project_info,
                    probe, natural_description, llm_summary, dir_order, files_by_dir,
                    descriptions, output >>

\* lines 485-492: no JSON found in the response
BatchMissingJSON ==
    /\ AtBatch
    /\ \E response \in Responses(Batch) :
          /\ ~response.raises
          /\ ~truthy(extract_json_from_markdown(response))
          /\ cur' = [ cur EXCEPT
                        !.dir_description = failed_dir_description(@, MISSING_JSON),
                        !.file_descriptions =
                            Update(@, fallback_file_descriptions(cur.dir_path, Batch,
                                                                 MISSING_JSON)),
                        !.file_batches = Tail(@) ]
          /\ requests' = Append(requests,
                                Request("descriptions", cur.dir_path, Batch, response))
    /\ UNCHANGED << fs, ignore_folders, ignore_patterns, pc, exc, stack, project_info,
                    probe, natural_description, llm_summary, dir_order, files_by_dir,
                    descriptions, output >>

\* line 477 raises JSONDecodeError: lines 493-503
BatchJSONDecodeError ==
    /\ AtBatch
    /\ \E response \in Responses(Batch) :
          /\ ~response.raises
          /\ truthy(extract_json_from_markdown(response))
          /\ json_invalid(extract_json_from_markdown(response))
          /\ BatchExcept("JSONDecodeError", response)

\* the request raises (lines 463-468), or the parsed value is not an object
\* (dir_data.get, lines 479 and 482) or its files are not one (.items(), line
\* 482): lines 504-511
BatchUnexpectedError ==
    /\ AtBatch
    /\ \E response \in Responses(Batch) :
          \/ /\ response.raises
             /\ BatchExcept(response.error, response)
          \/ /\ ~response.raises
             /\ truthy(extract_json_from_markdown(response))
             /\ ~json_invalid(extract_json_from_markdown(response))
             /\ LET dir_data == json_loads(extract_json_from_markdown(response))
                IN  \/ ~is_dict(dir_data)
                    \/ /\ is_dict(dir_data)
                       /\ ~is_dict(Get(dir_data.fields, "files", JsonObject(<< >>)))
             /\ BatchExcept("AttributeError", response)

\* lines 513-514: after the last batch of the directory
CommitDirectory ==
    /\ pc = "batches"
    /\ cur.file_batches = << >>
    /\ descriptions' =
          [ directories |-> (cur.dir_path :> cur.dir_description) @@ descriptions.directories,
            files       |-> Update(descriptions.files, cur.file_descriptions) ]
    /\ pc' = "directories"
    /\ UNCHANGED << fs, ignore_folders, ignore_patterns, exc, stack, project_info, probe,
                    requests, natural_description, llm_summary, dir_order, files_by_dir,
                    cur, output >>

\* line 516
ReturnDescriptions ==
    /\ pc = "directories"
    /\ dir_order = << >>
    /\ pc' = "described"
    /\ UNCHANGED << fs, ignore_folders, ignore_patterns, exc, stack, project_info, probe,
                    requests, natural_description, llm_summary, dir_order, files_by_dir,
                    cur, descriptions, output >>

---------------------------------------------------------------------------
(* The summary generators and analyze_project *)

is_upper(c) == Ord[c] >= FirstUpper /\ Ord[c] <= LastUpper
is_lower(c) == Ord[c] >= Ord["a"] /\ Ord[c] <= Ord["z"]
is_cased(c) == is_upper(c) \/ is_lower(c)

upper_char == [ c \in CharSet |-> IF is_lower(c) THEN Chars[Ord[c] - CaseGap] ELSE c ]

\* str.replace(old, new) for single characters
replace(s, old, new) == [ i \in 1..Len(s) |-> IF s[i] = old THEN new ELSE s[i] ]

\* str.title(): a cased character is upper-cased after an uncased one or at
\* the start, lower-cased after a cased one
title(s) ==
    [ i \in 1..Len(s) |->
        IF i = 1 \/ ~is_cased(s[i - 1]) THEN upper_char[s[i]] ELSE lower_char[s[i]] ]

\* The collaborator's errors.
Errors == { "TimeoutError", "ConnectionError" }

\* lines 410-416: the text returned when the collaborator fails, by the
\* values its template is filled with
natural_fallback(info) ==
    [ kind              |-> "natural fallback",
      project_title     |-> title(replace(replace(info.project_name, "_", " "), "-", " ")),
      languages         |-> info.statistics.languages,
      total_files       |-> info.statistics.total_files,
      total_directories |-> info.statistics.total_directories,
      code_files        |-> info.statistics.code_files ]

\* line 340: the text returned when the collaborator fails
summary_fallback(info, e) ==
    [ kind        |-> "summary fallback",
      error       |-> e,
      total_files |-> info.statistics.total_files,
      languages   |-> Cardinality(info.statistics.languages) ]

LlmText(text) == [ kind |-> "llm", text |-> text ]
NoText == [ kind |-> "unset" ]

\* lines 559-560 and 397-416
GenerateNaturalDescription ==
    /\ pc = "scanned"
    /\ \E response \in { LlmText("natural description") } \cup { Raises(e) : e \in Errors } :
          /\ natural_description' =
                IF "raises" \in DOMAIN response
                THEN natural_fallback(project_info) ELSE response
          /\ requests' = Append(requests, Request("natural", << >>, << >>, None))
    /\ pc' = "summary"
    /\ UNCHANGED << fs, ignore_folders, ignore_patterns, exc, stack, project_info, probe,
                    llm_summary, dir_order, files_by_dir, cur, descriptions, output >>

\* lines 562-563 and 334-340
GenerateSummary ==
    /\ pc = "summary"
    /\ \E response \in { LlmText("summary") } \cup { Raises(e) : e \in Errors } :
          /\ llm_summary' =
                IF "raises" \in DOMAIN response
                THEN summary_fallback(project_info, response.error) ELSE response
          /\ requests' = Append(requests, Request("summary", << >>, << >>, None))
    /\ pc' = "readme"
    /\ UNCHANGED << fs, ignore_folders, ignore_patterns, exc, stack, project_info, probe,
                    natural_description, dir_order, files_by_dir, cur, descriptions,
                    output >>

\* lines 570-585: the report, written to output_file when one is given
Report ==
    /\ pc = "described"
    /\ \E output_file \in { "", "project_analysis.json" } :
          output' = IF output_file = "" THEN "none" ELSE output_file
    /\ pc' = "done"
    /\ UNCHANGED << fs, ignore_folders, ignore_patterns, exc, stack, project_info, probe,
                    requests, natural_description, llm_summary, dir_order, files_by_dir,
                    cur, descriptions >>

\* analyze_project
Next ==
    \/ NextScan
    \/ GenerateNaturalDescription
    \/ GenerateSummary
    \/ GenerateDescriptions
    \/ SkipDescriptions
    \/ StartDirectory
    \/ BatchParsed
    \/ BatchMissingJSON
    \/ BatchJSONDecodeError
    \/ BatchUnexpectedError
    \/ CommitDirectory
    \/ ReturnDescriptions
    \/ Report

---------------------------------------------------------------------------
(* Scenarios: the file systems and arguments the runs start from *)

Tree(name, ents, unreadable) ==
    [ name |-> name, is_dir |-> TRUE, ents |-> ents, unreadable |-> unreadable ]

\* A root path that does not exist or names a file.
NoTree == [ name |-> <<"g", "o", "n", "e">>, is_dir |-> FALSE, ents |-> << >>, unreadable |-> {} ]

\* A small project with ignored entries at two depths, a directory named
\* "root", an empty directory and a file without extension.
RichTree ==
    Tree(<<"m", "y", "-", "p", "r", "o", "j", "e", "c", "t">>,
         (<< >> :> { File(<<".", "D", "S", "_", "S", "t", "o", "r", "e">>, 6), File(<<"a", ".", "p", "y">>, 200), File(<<"a", "p", "p", ".", "L", "O", "G">>, 30),
                     File(<<"M", "a", "k", "e", "f", "i", "l", "e">>, 10), Dir(<<"n", "o", "d", "e", "_", "m", "o", "d", "u", "l", "e", "s">>), Dir(<<"s", "r", "c">>),
                     Dir(<<"e", "m", "p", "t", "y">>), Dir(<<"r", "o", "o", "t">>), Dir(<<"D", "i", "s", "t">>), Dir(<<"d", "i", "s", "t", "r", "i", "b", "u", "t", "i", "o", "n">>) })
         @@ (<< <<"n", "o", "d", "e", "_", "m", "o", "d", "u", "l", "e", "s">> >> :> { File(<<"x", ".", "j", "s">>, 5), Dir(<<"l", "i", "b">>) })
         @@ (<< <<"n", "o", "d", "e", "_", "m", "o", "d", "u", "l", "e", "s">>, <<"l", "i", "b">> >> :> { File(<<"y", ".", "j", "s">>, 5) })
         @@ (<< <<"s", "r", "c">> >> :> { File(<<"b", ".", "j", "s">>, 20), File(<<"b", ".", "p", "y", "c">>, 7), Dir(<<"u", "t", "i", "l">>), Dir(<<"l", "o", "g", "s">>) })
         @@ (<< <<"s", "r", "c">>, <<"u", "t", "i", "l">> >> :> { File(<<"c", ".", "P", "Y">>, 40), File(<<"n", "o", "t", "e", "s", ".", "T", "X", "T">>, 3) })
         @@ (<< <<"s", "r", "c">>, <<"l", "o", "g", "s">> >> :> { File(<<"r", "u", "n", ".", "t", "x", "t">>, 9) })
         @@ (<< <<"r", "o", "o", "t">> >> :> { File(<<"r", ".", "p", "y">>, 2) })
         @@ (<< <<"D", "i", "s", "t">> >> :> { File(<<"b", "u", "n", "d", "l", "e", ".", "j", "s">>, 50) })
         @@ (<< <<"d", "i", "s", "t", "r", "i", "b", "u", "t", "i", "o", "n">> >> :> { File(<<"n", "o", "t", "e", "s", ".", "m", "d">>, 4) }),
         {})

\* A project with unreadable directories at two depths, entries that sort
\* after them, and a file whose stat fails.
LockedTree ==
    Tree(<<"l", "o", "c", "k", "e", "d", "_", "p", "r", "o", "j", "e", "c", "t">>,
         (<< >> :> { Dir(<<"l", "o", "c", "k", "e", "d">>), File(<<"m", ".", "p", "y">>, 12), Dir(<<"p", "k", "g">>), BrokenFile(<<"z", "l", "i", "n", "k", ".", "p", "y">>) })
         @@ (<< <<"l", "o", "c", "k", "e", "d">> >> :> { File(<<"s", "e", "c", "r", "e", "t", ".", "p", "y">>, 99) })
         @@ (<< <<"p", "k", "g">> >> :> { File(<<"a", ".", "t", "x", "t">>, 1), Dir(<<"i", "n", "n", "e", "r">>),
                                         File(<<"k", ".", "p", "y">>, 8) })
         @@ (<< <<"p", "k", "g">>, <<"i", "n", "n", "e", "r">> >> :> { File(<<"d", "e", "e", "p", ".", "p", "y">>, 77) }),
         { << <<"l", "o", "c", "k", "e", "d">> >>, << <<"p", "k", "g">>, <<"i", "n", "n", "e", "r">> >> })

\* The most full batches of one directory in the batching scenarios.
MaxFullBatches == 2

\* A project whose directory pkg holds n numbered files, beside an empty
\* directory.
BatchTree(n) ==
    Tree(<<"b", "a", "t", "c", "h", "e", "s">>,
         (<< >> :> { Dir(<<"p", "k", "g">>), Dir(<<"v", "o", "i", "d">>) })
         @@ (<< <<"p", "k", "g">> >> :> NumberedFiles(n)),
         {})

\* A project whose directory pkg needs two batches and is followed by a file
\* of the root.
TwoGroupTree ==
    Tree(<<"g", "r", "o", "u", "p", "s">>,
         (<< >> :> { Dir(<<"p", "k", "g">>), File(<<"z", ".", "p", "y">>, 9) })
         @@ (<< <<"p", "k", "g">> >> :> NumberedFiles(batch_size + 1)),
         {})

BatchCounts ==
    { batch_size - 1, batch_size, batch_size + 1,
      MaxFullBatches * batch_size, MaxFullBatches * batch_size + 1 }

\* How far below and above the ceiling the large projects go.
CeilingSlack == 1

\* A project of nRoot + nSub + nDeep counted files in the root, in sub and in
\* sub/deep, beside ignored entries (a file, a directory with files) and an
\* unreadable directory, none of which count.
BigTree(nRoot, nSub, nDeep) ==
    Tree(<<"b", "i", "g">>,
         (<< >> :> NumberedFiles(nRoot)
                   \cup { Dir(<<"s", "u", "b">>), Dir(<<"b", "u", "i", "l", "d">>), Dir(<<"l", "o", "c", "k", "e", "d">>), File(<<"x", ".", "l", "o", "g">>, 3) })
         @@ (<< <<"s", "u", "b">> >> :> NumberedFiles(nSub) \cup { Dir(<<"d", "e", "e", "p">>), File(<<"o", "l", "d", ".", "p", "y", "c">>, 3) })
         @@ (<< <<"s", "u", "b">>, <<"d", "e", "e", "p">> >> :> NumberedFiles(nDeep))
         @@ (<< <<"b", "u", "i", "l", "d">> >> :> NumberedFiles(2))
         @@ (<< <<"l", "o", "c", "k", "e", "d">> >> :> NumberedFiles(3)),
         { << <<"l", "o", "c", "k", "e", "d">> >> })

\* The ways total files are spread: all in the root; half in the root and half
\* in sub; half in the root and half in sub/deep; sub/deep (scanned before
\* sub's own files) and sub.
BigShapes(total) ==
    { << total, 0, 0 >>,
      << total \div 2, total - (total \div 2), 0 >>,
      << total \div 2, 0, total - (total \div 2) >>,
      << 0, total \div 2, total - (total \div 2) >> }

BigTrees ==
    { BigTree(s[1], s[2], s[3]) :
        s \in UNION { BigShapes(t) :
                        t \in (MAX_FILES - CeilingSlack)..(MAX_FILES + CeilingSlack) } }

\* ignore_folders of main() (lines 599-608)
main_ignore_folders ==
    { <<"l", "o", "g", "s">>, <<"t", "e", "s", "t", "_", "d", "a", "t", "a">>, <<"t", "e", "m", "p">>, <<"c", "a", "c", "h", "e">>, <<"n", "o", "d", "e", "_", "m", "o", "d", "u", "l", "e", "s">>, <<"d", "a", "t", "a">>, <<".", "n", "e", "x", "t">>, <<"p", "u", "b", "l", "i", "c">> }

Scenario(tree, folders) == [ fs |-> tree, ignore_folders |-> folders ]

ScanScenarios ==
    { Scenario(NoTree, {}) }
    \cup { Scenario(t, f) : t \in { RichTree, LockedTree },
                            f \in { {}, main_ignore_folders, { <<"S", "R", "C">>, <<"p", "k", "g">>, <<"*", ".", "m", "d">> } } }
    \cup { Scenario(BatchTree(n), {}) : n \in BatchCounts }
    \cup { Scenario(t, {}) : t \in BigTrees }

NoCur ==
    [ dir_path |-> << >>, file_batches |-> << >>, dir_description |-> "",
      file_descriptions |-> << >> ]

InitWith(sc) ==
    /\ fs = sc.fs
    /\ ignore_folders = sc.ignore_folders
    /\ ignore_patterns = {}
    /\ pc = "start"
    /\ exc = "none"
    /\ stack = << >>
    /\ project_info = NewProjectInfo(<< >>)
    /\ probe = [ name |-> << >>, result |-> FALSE ]
    /\ requests = << >>
    /\ natural_description = NoText
    /\ llm_summary = NoText
    /\ dir_order = << >>
    /\ files_by_dir = << >>
    /\ cur = NoCur
    /\ descriptions = [ directories |-> << >>, files |-> << >> ]
    /\ output = "none"

\* analyze_directory called on its own
InitScan == \E sc \in ScanScenarios : InitWith(sc)

SpecScan == InitScan /\ [][NextScan]_vars

---------------------------------------------------------------------------
(* analyze_project *)

\* A small project: files in the root, an ignored file and directory, a
\* directory named "root", an empty directory.
SmallTree ==
    Tree(<<"m", "y", "-", "p", "r", "o", "j", "e", "c", "t">>,
         (<< >> :> { File(<<".", "D", "S", "_", "S", "t", "o", "r", "e">>, 6), File(<<"a", ".", "p", "y">>, 200), File(<<"a", "p", "p", ".", "L", "O", "G">>, 30),
                     Dir(<<"n", "o", "d", "e", "_", "m", "o", "d", "u", "l", "e", "s">>), Dir(<<"s", "r", "c">>), Dir(<<"e", "m", "p", "t", "y">>), Dir(<<"r", "o", "o", "t">>) })
         @@ (<< <<"n", "o", "d", "e", "_", "m", "o", "d", "u", "l", "e", "s">> >> :> { File(<<"x", ".", "j", "s">>, 5) })
         @@ (<< <<"s", "r", "c">> >> :> { File(<<"b", ".", "j", "s">>, 20), File(<<"b", ".", "p", "y", "c">>, 7) })
         @@ (<< <<"r", "o", "o", "t">> >> :> { File(<<"r", ".", "p", "y">>, 2) }),
         {})

\* A project over the ceiling: the file that overflows is two calls deep.
OverflowTree == BigTree(MAX_FILES \div 2, 0, MAX_FILES + 1 - (MAX_FILES \div 2))

ProjectScenarios ==
    { Scenario(NoTree, {}), Scenario(OverflowTree, {}), Scenario(LockedTree, {}),
      Scenario(TwoGroupTree, {}) }
    \cup { Scenario(SmallTree, f) : f \in { {}, main_ignore_folders } }
    \cup { Scenario(BatchTree(n), {}) : n \in BatchCounts }

Init == \E sc \in ProjectScenarios : InitWith(sc)

Spec == Init /\ [][Next]_vars

---------------------------------------------------------------------------
(* should_ignore on its own *)

\* Names a caller may add to the ignore rules.
IgnoreFolderChoices ==
    { {}, main_ignore_folders, { <<"T", "e", "m", "p">> }, { <<"t", "e", "s", "t", "*">> }, { <<"*", ".", "B", "A", "K">> }, { <<"*", ".", "b", "a", "k">>, <<"t", "m", "p", "*">> },
      { <<"T", "O", "D", "O">>, <<"*", ".", "M", "d">> }, { <<"*">> } }

\* Entry names should_ignore is asked about.
ProbeNames ==
    { <<".", "D", "S", "_", "S", "t", "o", "r", "e">>, <<".", "d", "s", "_", "s", "t", "o", "r", "e">>, <<"a", "p", "p", ".", "L", "O", "G">>, <<"a", "p", "p", ".", "l", "o", "g">>, <<"d", "i", "s", "t">>, <<"D", "i", "s", "t">>, <<"D", "I", "S", "T">>,
      <<"d", "i", "s", "t", "r", "i", "b", "u", "t", "i", "o", "n">>, <<"n", "o", "d", "e", "_", "m", "o", "d", "u", "l", "e", "s">>, <<"N", "o", "d", "e", "_", "M", "o", "d", "u", "l", "e", "s">>, <<"a", ".", "p", "y">>, <<"a", ".", "P", "Y", "C">>, <<"x", ".", "e", "g", "g", "-", "i", "n", "f", "o">>,
      <<"t", "e", "m", "p">>, <<"T", "e", "m", "p">>, <<"T", "E", "M", "P">>, <<"t", "e", "s", "t", "s">>, <<"T", "e", "s", "t", "_", "d", "a", "t", "a">>, <<"o", "l", "d", ".", "b", "a", "k">>, <<"o", "l", "d", ".", "B", "A", "K">>, <<"t", "m", "p", "1">>,
      <<"t", "o", "d", "o">>, <<"T", "O", "D", "O">>, <<"r", "e", "a", "d", "m", "e", ".", "m", "d">>, <<"R", "E", "A", "D", "M", "E", ".", "M", "D">>, <<"l", "o", "g">>, <<".", "l", "o", "g">>, <<"l", "o", "g", "s">> }

InitIgnore == \E f \in IgnoreFolderChoices : InitWith(Scenario(NoTree, f))

\* lines 151-153, then a call of should_ignore
ShouldIgnoreCall ==
    /\ pc = "start"
    /\ \E n \in ProbeNames :
          probe' = [ name |-> n,
                     result |-> should_ignore(n, default_ignore \cup ignore_folders) ]
    /\ ignore_patterns' = default_ignore \cup ignore_folders
    /\ UNCHANGED << fs, ignore_folders, pc, exc, stack, project_info, requests,
                    natural_description, llm_summary, dir_order, files_by_dir, cur,
                    descriptions, output >>

NextIgnore == ShouldIgnoreCall

SpecIgnore == InitIgnore /\ [][NextIgnore]_vars

---------------------------------------------------------------------------
(* Properties of generate_descriptions *)

\* generate_descriptions has returned a description map.
Described == pc \in { "described", "done" } /\ "directories" \in DOMAIN descriptions

\* The description requests issued for directory d, in order.
DescRequests(d) ==
    SelectSeq(requests, LAMBDA r : r.kind = "descriptions" /\ r.directory = d)

AllDescRequests == SelectSeq(requests, LAMBDA r : r.kind = "descriptions")

\* A response that holds a JSON object whose files, if given, are an object:
\* the batch is parsed; any other response is a failed batch.
Parses(response) ==
    /\ ~response.raises
    /\ response.fenced
    /\ response.body.kind = "json"
    /\ response.body.value.type = "object"
    /\ Get(response.body.value.fields, "files", JsonObject(<< >>)).type = "object"

\* The directory description a parsed response offers.
Offered(response) ==
    Get(response.body.value.fields, "directory_description", "Description unavailable")

\* The response of request i of rs is parsed and its directory description is
\* adopted: no earlier batch of the directory has set one.
AdoptedAt(rs, i) ==
    /\ Parses(rs[i].response)
    /\ Offered(rs[i].response) # ""
    /\ \A k \in 1..(i - 1) : Parses(rs[k].response) /\ Offered(rs[k].response) = ""

\* C1: when a batch of a directory fails, the directory description is set to
\* the fallback only if it is still unset: a description adopted from an
\* earlier parsed batch of the directory is the one committed for it.
C1_FallbackOnlyIfUnset ==
    Described =>
        \A d \in DOMAIN descriptions.directories :
            LET rs == DescRequests(d)
            IN  \A i \in 1..Len(rs) : \A j \in (i + 1)..Len(rs) :
                    (AdoptedAt(rs, i) /\ ~Parses(rs[j].response))
                        => descriptions.directories[d] = Offered(rs[i].response)

\* The key generate_descriptions gives a file: its group's name joined with
\* its name.
FileKey(file_info) == path_join(dir_key(file_info), file_info.name)

\* C2: after generate_descriptions returns, every file of the flat file list
\* has an entry in the file-description mapping, whatever the collaborator
\* answered.
C2_EveryFileHasEntry ==
    Described =>
        \A i \in 1..Len(project_info.files) :
            FileKey(project_info.files[i]) \in DOMAIN descriptions.files

\* C3: after generate_descriptions returns, every directory of the flat
\* directory list is a key of the directory-description mapping, with or
\* without kept files, whatever the collaborator answered.
C3_EveryDirectoryHasEntry ==
    Described =>
        \A i \in 1..Len(project_info.directories) :
            project_info.directories[i] \in DOMAIN descriptions.directories

\* generate_descriptions has returned for a project with a directory without
\* kept files beside a directory one of whose batches failed.
C3_Witness ==
    /\ Described
    /\ \E i \in 1..Len(project_info.directories) :
          /\ project_info.directories[i] \notin DOMAIN files_by_dir.groups
          /\ project_info.directories[i] \in DOMAIN descriptions.directories
    /\ \E k \in 1..Len(AllDescRequests) : ~Parses(AllDescRequests[k].response)

---------------------------------------------------------------------------
(* Properties of the scan *)

\* The rules of the run.
Rules == default_ignore \cup ignore_folders

\* Every directory path of the file system.
DirPaths ==
    { << >> }
    \cup UNION { { Append(p, e.name) : e \in { x \in fs.ents[p] : x.is_dir } } :
                  p \in DOMAIN fs.ents }

\* Directory p is one the scan calls scan_directory on: no name on the way is
\* ignored and every directory above it can be listed.
Entered(p) ==
    \A k \in 1..Len(p) :
        /\ ~should_ignore(p[k], Rules)
        /\ SubSeq(p, 1, k - 1) \notin fs.unreadable
        /\ \E e \in Listing(fs, SubSeq(p, 1, k - 1)) : e.is_dir /\ e.name = p[k]

\* The directories whose entries the scan visits.
ListedDirs == { p \in DirPaths : Entered(p) /\ p \notin fs.unreadable }

\* The entries the scan visits and does not ignore, each with its directory.
KeptEntries ==
    UNION { { << p, e >> : e \in { x \in Listing(fs, p) : ~should_ignore(x.name, Rules) } } :
            p \in ListedDirs }

\* The files that count towards the ceiling, and the directories recorded.
QualifyingFiles == { pe \in KeptEntries : ~pe[2].is_dir }
QualifyingDirs == { pe \in KeptEntries : pe[2].is_dir }

\* C4: analyze_directory ends with the overflow error exactly when more than
\* MAX_FILES files qualify (are met by the scan, at any depth, and are not
\* ignored), and otherwise returns the model; once raised, the error is never
\* taken by the permission-error handler of a call it passes through.
C4_CeilingExact ==
    /\ (pc \in { "scanned", "failed" } /\ fs.is_dir) =>
          /\ (pc = "failed") <=> (Cardinality(QualifyingFiles) > MAX_FILES)
          /\ (pc = "failed") => exc = "ValueError"
          /\ (pc = "scanned") =>
                /\ exc = "none"
                /\ Len(project_info.files) = Cardinality(QualifyingFiles)
    /\ exc = "ValueError" => pc \in { "except", "failed" }

\* The scan has failed on a project of exactly MAX_FILES + 1 qualifying
\* files, the last of them two directories deep, beside an unreadable
\* directory.
C4_Witness ==
    /\ pc = "failed"
    /\ exc = "ValueError"
    /\ Cardinality(QualifyingFiles) = MAX_FILES + 1
    /\ \E pe \in QualifyingFiles : Len(pe[1]) = 2
    /\ fs.unreadable # {}

\* The scan has returned the model of a project of exactly MAX_FILES
\* qualifying files.
C4_WitnessAtCeiling ==
    /\ pc = "scanned"
    /\ Cardinality(QualifyingFiles) = MAX_FILES

Range(s) == { s[i] : i \in 1..Len(s) }

\* The nodes of a structural tree, at every depth.
RECURSIVE AllNodes(_)
AllNodes(items) ==
    UNION { { n } \cup (IF n.type = "directory" THEN AllNodes(n.items) ELSE {}) :
            n \in Range(items) }

\* The names a relative path is made of.
Components(path) ==
    LET cuts == { 0, Len(path) + 1 } \cup Positions(path, "/")
    IN  { SubSeq(path, a + 1, b - 1) :
            << a, b >> \in { c \in cuts \X cuts :
                               c[1] < c[2] /\ \A m \in cuts : ~(c[1] < m /\ m < c[2]) } }

\* The relative path of the entry reached by the names of p.
RECURSIVE RelativePath(_)
RelativePath(p) ==
    IF Len(p) = 1 THEN p[1]
    ELSE path_join(RelativePath(SubSeq(p, 1, Len(p) - 1)), p[Len(p)])

EntryPath(pe) == RelativePath(Append(pe[1], pe[2].name))

\* The sum of f over the finite set S of numbers weighted by count.
RECURSIVE WeightedSum(_, _)
WeightedSum(values, count) ==
    IF values = {} THEN 0
    ELSE LET v == CHOOSE x \in values : TRUE
         IN  v * count[v] + WeightedSum(values \ { v }, count)

\* What the statistics are when only the qualifying entries are counted.
ExpectedSize ==
    LET read == { pe \in QualifyingFiles : pe[2].stat_ok }
        sizes == { pe[2].size : pe \in read }
    IN  WeightedSum(sizes, [ v \in sizes |-> Cardinality({ pe \in read : pe[2].size = v }) ])

ExpectedExtension(pe) == IF pe[2].stat_ok THEN lower(suffix(pe[2].name)) ELSE << >>

ExpectedCode == { pe \in QualifyingFiles : ExpectedExtension(pe) \in code_extensions }

\* Every path the scan has recorded so far.
RecordedPaths ==
    { f.relative_path : f \in Range(project_info.files) }
    \cup Range(project_info.directories)
    \cup { n.path : n \in AllNodes(project_info.structure) }
    \cup UNION { { n.path : n \in AllNodes(stack[i].items) } : i \in 1..Len(stack) }

\* C9: ignored entries leave no trace. When the scan has ended, no recorded
\* path (flat file list, flat directory list, structural tree) has an ignored
\* name in it, and when it has returned, the lists, the tree and every
\* statistic are those of the entries that are not ignored and not beneath
\* an ignored directory.
C9_IgnoredLeaveNoTrace ==
    /\ (pc \in { "scanned", "failed" } /\ fs.is_dir) =>
          \A path \in RecordedPaths : \A name \in Components(path) :
              ~should_ignore(name, ignore_patterns)
    /\ pc = "scanned" =>
          LET stats == project_info.statistics
          IN  /\ { f.relative_path : f \in Range(project_info.files) }
                    = { EntryPath(pe) : pe \in QualifyingFiles }
              /\ Range(project_info.directories) = { EntryPath(pe) : pe \in QualifyingDirs }
              /\ { n.path : n \in AllNodes(project_info.structure) }
                    = { EntryPath(pe) : pe \in KeptEntries }
              /\ stats.total_files = Cardinality(QualifyingFiles)
              /\ stats.total_directories = Cardinality(QualifyingDirs)
              /\ stats.code_files = Cardinality(ExpectedCode)
              /\ stats.total_size = ExpectedSize
              /\ DOMAIN stats.file_types
                    = { ExpectedExtension(pe) : pe \in QualifyingFiles } \ { << >> }
              /\ \A ext \in DOMAIN stats.file_types :
                    stats.file_types[ext]
                        = Cardinality({ pe \in QualifyingFiles : ExpectedExtension(pe) = ext })
              /\ stats.languages
                    = { lang_map[ExpectedExtension(pe)] :
                          pe \in { x \in ExpectedCode : ExpectedExtension(x) \in DOMAIN lang_map } }

\* The scan has returned for a project with an ignored file and an ignored
\* directory that has entries of its own.
C9_Witness ==
    /\ pc = "scanned"
    /\ \E p \in ListedDirs : \E e \in Listing(fs, p) :
          /\ should_ignore(e.name, ignore_patterns)
          /\ e.is_dir
          /\ Listing(fs, Append(p, e.name)) # {}
    /\ \E p \in ListedDirs : \E e \in Listing(fs, p) :
          should_ignore(e.name, ignore_patterns) /\ ~e.is_dir

---------------------------------------------------------------------------
(* Properties of analyze_project *)

\* C10: a fatal scan error (the root is no directory, or the file count
\* exceeds the ceiling) ends analyze_project before anything else: no
\* collaborator request has been issued and no analysis file written.
C10_FatalScanErrorFirst ==
    (pc = "failed" \/ exc \in { "FileNotFoundError", "ValueError" }) =>
        /\ requests = << >>
        /\ output = "none"
        /\ natural_description = NoText
        /\ llm_summary = NoText
        /\ pc \in { "except", "failed" }

\* The run has ended with the overflow error.
C10_Witness ==
    /\ pc = "failed"
    /\ exc = "ValueError"
    /\ project_info.statistics.total_files = MAX_FILES + 1

\* The run has ended because the root is no directory.
C10_WitnessMissing == pc = "failed" /\ exc = "FileNotFoundError"

---------------------------------------------------------------------------
(* More properties of generate_descriptions *)

RECURSIVE Flatten(_)
Flatten(seqs) == IF seqs = << >> THEN << >> ELSE Head(seqs) \o Flatten(Tail(seqs))

\* The names of the files of group d, in flat-file-list order.
NamesIn(d) ==
    LET group == SelectSeq(project_info.files, LAMBDA f : dir_key(f) = d)
    IN  [ i \in 1..Len(group) |-> group[i].name ]

GroupNames == { dir_key(f) : f \in Range(project_info.files) }

\* A step of the loops of generate_descriptions.
DescriptionStep ==
    \/ StartDirectory
    \/ BatchParsed
    \/ BatchMissingJSON
    \/ BatchJSONDecodeError
    \/ BatchUnexpectedError
    \/ CommitDirectory
    \/ ReturnDescriptions

FailureCategory(response) ==
    IF response.raises THEN UNEXPECTED_ERROR
    ELSE IF ~response.fenced THEN MISSING_JSON
    ELSE IF response.body.kind # "json" THEN JSON_PARSING_ERROR
    ELSE IF ~Parses(response) THEN UNEXPECTED_ERROR
    ELSE "none"

\* The last step was a batch of the directory being processed.
AfterBatch ==
    /\ pc = "batches"
    /\ requests # << >>
    /\ requests[Len(requests)].kind = "descriptions"
    /\ requests[Len(requests)].directory = cur.dir_path

\* C6: a failed batch maps every file name of the batch to the fallback
\* string of its failure category: missing JSON for a response without a
\* fenced block, JSON parse error for a fenced block whose content is not
\* valid JSON, unexpected error for any other exception; and no exception
\* leaves generate_descriptions.
C6_FallbackByCategory ==
    /\ pc = "failed" => exc \in { "FileNotFoundError", "ValueError" }
    /\ AfterBatch =>
          LET r == requests[Len(requests)]
          IN  FailureCategory(r.response) # "none" =>
                  \A fn \in Range(r.file_list) :
                      /\ path_join(cur.dir_path, fn) \in DOMAIN cur.file_descriptions
                      /\ cur.file_descriptions[path_join(cur.dir_path, fn)]
                            = FailureCategory(r.response)

\* A response of the expected shape: a fenced JSON object with a directory
\* description and a files object.
WellFormed(response) ==
    /\ Parses(response)
    /\ { "directory_description", "files" } \subseteq DOMAIN response.body.value.fields

AllWellFormed == \A r \in Range(AllDescRequests) : WellFormed(r.response)

\* The pairs of the block of request r, keyed by directory/filename.
BlockFiles(r) == r.response.body.value.fields.files.fields

BlockPairs(r) ==
    { << path_join(r.directory, fn), BlockFiles(r)[fn] >> : fn \in DOMAIN BlockFiles(r) }

MapPairs(m) == { << k, m[k] >> : k \in DOMAIN m }

\* C7 as stated: when every response is well formed, the description map
\* holds the directory description of the first batch of each directory and
\* exactly the pairs of the blocks.
C7_ExactlyTheBlocks ==
    (Described /\ AllWellFormed) =>
        /\ MapPairs(descriptions.files) = UNION { BlockPairs(r) : r \in Range(AllDescRequests) }
        /\ \A d \in DOMAIN descriptions.directories :
              DescRequests(d) # << >> =>
                  descriptions.directories[d] = Offered(DescRequests(d)[1].response)

\* The first description that is not empty among the blocks of rs, empty when
\* there is none.
FirstNonEmpty(rs) ==
    LET set == { i \in 1..Len(rs) : Offered(rs[i].response) # "" }
    IN  IF set = {} THEN ""
        ELSE Offered(rs[CHOOSE i \in set : \A j \in set : i <= j].response)

\* C7 amended: when every response is well formed, the description of a
\* directory is that of its first block whose directory description is not
\* empty (empty when it has none), and the file map holds exactly the keys of
\* the blocks, each with the description of the last block that names it.
C7_BlocksMerged ==
    (Described /\ AllWellFormed) =>
        LET rs == AllDescRequests
        IN  /\ DOMAIN descriptions.files = { pair[1] : pair \in UNION { BlockPairs(r) : r \in Range(rs) } }
            /\ \A p \in DOMAIN descriptions.files :
                  LET naming == { i \in 1..Len(rs) : \E pair \in BlockPairs(rs[i]) : pair[1] = p }
                      last == CHOOSE i \in naming : \A j \in naming : j <= i
                  IN  << p, descriptions.files[p] >> \in BlockPairs(rs[last])
            /\ \A d \in DOMAIN descriptions.directories :
                  descriptions.directories[d] = FirstNonEmpty(DescRequests(d))
            /\ DOMAIN descriptions.directories
                  = GroupNames \cup Range(project_info.directories)

\* generate_descriptions has returned, every response was well formed, a
\* directory's first block had an empty description and a later one had not,
\* and two blocks named the same file.
C7_Witness ==
    /\ Described
    /\ AllWellFormed
    /\ \E d \in DOMAIN descriptions.directories :
          LET rs == DescRequests(d)
          IN  /\ Len(rs) >= 2
              /\ Offered(rs[1].response) = ""
              /\ descriptions.directories[d] # ""
    /\ \E i \in 1..Len(AllDescRequests) : \E j \in (i + 1)..Len(AllDescRequests) :
          \E pi \in BlockPairs(AllDescRequests[i]) : \E pj \in BlockPairs(AllDescRequests[j]) :
              pi[1] = pj[1] /\ pi[2] # pj[2]

---------------------------------------------------------------------------
(* Properties of should_ignore *)

\* Name and rule match when letter case is set aside.
MatchesUpToCase(name, rule) ==
    LET n == lower(name)
        r == lower(rule)
    IN  \/ n = r
        \/ startswith(r, << "*" >>) /\ endswith(n, SubSeq(r, 2, Len(r)))
        \/ endswith(r, << "*" >>) /\ startswith(n, SubSeq(r, 1, Len(r) - 1))

\* C8: should_ignore matches case-insensitively for every rule and every
\* name: an entry is ignored exactly when its name equals a literal rule or
\* matches a wildcard rule up to letter case, for the default rules and the
\* caller's alike.
C8_CaseInsensitive ==
    probe.name # << >> =>
        (probe.result <=> \E rule \in ignore_patterns : MatchesUpToCase(probe.name, rule))

---------------------------------------------------------------------------
(* Properties of the fallback texts *)

\* The collaborator failed during generate_natural_description.
NaturalFailed == natural_description.kind = "natural fallback"

\* The collaborator failed during generate_summary.
SummaryFailed == llm_summary.kind = "summary fallback"

\* What a fallback template may be filled with: values of the statistics and
\* the title-cased project name.
StatisticsFields ==
    { "project_title", "languages", "total_files", "total_directories", "code_files" }

\* What a text is filled with.
Filled(text) == DOMAIN text \ { "kind" }

\* C11: when the collaborator fails during generate_summary or
\* generate_natural_description, the text returned is a template filled from
\* the project statistics only: it is the text any other error would have
\* given over the same project model, and it is never empty.
C11_FallbackFromStatisticsOnly ==
    /\ NaturalFailed =>
          /\ natural_description = natural_fallback(project_info)
          /\ Filled(natural_description) \subseteq StatisticsFields
    /\ SummaryFailed =>
          /\ \A e \in Errors : llm_summary = summary_fallback(project_info, e)
          /\ Filled(llm_summary) \subseteq StatisticsFields
    /\ pc \in { "readme", "directories", "batches", "described", "done" } =>
          natural_description # NoText /\ llm_summary # NoText

---------------------------------------------------------------------------
(* Properties of the permission-error handler of scan_directory *)

\* The directories the scan enters and fails to list.
LockedDirs == { u \in fs.unreadable : u # << >> /\ u \in DirPaths /\ Entered(u) }

\* The entries beside directory u that the scan does not ignore: those that
\* sort before it and those that sort after it.
Parent(u) == SubSeq(u, 1, Len(u) - 1)

Beside(u) ==
    { e \in Listing(fs, Parent(u)) : e.name # u[Len(u)] /\ ~should_ignore(e.name, Rules) }

Before(u) == { e \in Beside(u) : StrLess(e.name, u[Len(u)]) }
After(u) == { e \in Beside(u) : StrLess(u[Len(u)], e.name) }

\* The entry e of directory p is recorded in the flat list of its kind and in
\* the structural tree.
Recorded(p, e) ==
    LET path == EntryPath(<< p, e >>)
    IN  /\ IF e.is_dir
           THEN path \in Range(project_info.directories)
           ELSE \E f \in Range(project_info.files) : f.relative_path = path
        /\ \E n \in AllNodes(project_info.structure) : n.path = path

\* C12: a permission error raised while listing a directory is local to the
\* subtree of that directory. The scan never fails with it (only the overflow
\* of the file count ends a scan that has started), and when the scan has
\* returned, the unreadable directory is recorded with no items, nothing
\* beneath it is recorded, and the entries of its parent are all recorded,
\* those that sort before it and those that sort after it.
C12_PermissionErrorLocal ==
    /\ (pc = "failed" /\ fs.is_dir) => exc = "ValueError"
    /\ pc = "scanned" =>
          \A u \in LockedDirs :
              /\ RelativePath(u) \in Range(project_info.directories)
              /\ \A n \in AllNodes(project_info.structure) :
                    /\ n.path = RelativePath(u) => n.type = "directory" /\ n.items = << >>
                    /\ ~startswith(n.path, RelativePath(u) \o << "/" >>)
              /\ \A f \in Range(project_info.files) :
                    ~startswith(f.relative_path, RelativePath(u) \o << "/" >>)
              /\ \A e \in Before(u) \cup After(u) : Recorded(Parent(u), e)

\* The scan has returned for a project where an unreadable directory that
\* has entries of its own lies below the root, between entries that sort
\* before it and after it.
C12_Witness ==
    /\ pc = "scanned"
    /\ \E u \in LockedDirs :
          /\ Len(u) >= 2
          /\ Listing(fs, u) # {}
          /\ Before(u) # {}
          /\ After(u) # {}

---------------------------------------------------------------------------
(* Properties of the batches of generate_descriptions *)

\* The size of a batch.
ClaimedBatchSize == 10

\* The keys generate_descriptions goes through: the groups of files and the
\* directories of the flat directory list.
DescribedDirs == GroupNames \cup Range(project_info.directories)

\* ceil(n / ClaimedBatchSize)
BatchesFor(n) == (n + ClaimedBatchSize - 1) \div ClaimedBatchSize

\* C13: for each directory of n kept files generate_descriptions issues
\* exactly ceil(n / 10) requests, one per batch. The batches in request order
\* make up the file names of the directory in flat-file-list order, each but
\* the last has exactly 10 names, the last has 1 to 10, and no request is
\* ever issued with an empty file list: a directory without kept files has
\* no request.
C13_BatchesOfTen ==
    /\ \A r \in Range(AllDescRequests) :
          /\ r.file_list # << >>
          /\ Len(r.file_list) <= ClaimedBatchSize
          /\ r.directory \in DescribedDirs
    /\ Described =>
          \A d \in DescribedDirs :
              LET rs == DescRequests(d)
                  names == NamesIn(d)
              IN  /\ Len(rs) = BatchesFor(Len(names))
                  /\ Flatten([ i \in 1..Len(rs) |-> rs[i].file_list ]) = names
                  /\ \A i \in 1..(Len(rs) - 1) : Len(rs[i].file_list) = ClaimedBatchSize

\* generate_descriptions has returned for a project with a directory of
\* several batches whose last batch is not full, and a directory without
\* kept files.
C13_Witness ==
    /\ Described
    /\ \E d \in DescribedDirs :
          /\ Len(DescRequests(d)) >= 2
          /\ Len(NamesIn(d)) % ClaimedBatchSize # 0
    /\ \E d \in DescribedDirs : NamesIn(d) = << >> /\ DescRequests(d) = << >>

\* generate_descriptions has returned for a project with a directory whose
\* batches are all full.
C13_WitnessFull ==
    /\ Described
    /\ \E d \in DescribedDirs :
          /\ Len(DescRequests(d)) >= 2
          /\ Len(NamesIn(d)) % ClaimedBatchSize = 0

---------------------------------------------------------------------------
(* Properties of the groups of generate_descriptions *)

\* The files without a parent directory.
RootFiles ==
    { f \in Range(project_info.files) : dirname(f.relative_path) = << >> }

\* The group named "root", empty when there is none.
RootGroup == Range(Get(files_by_dir.groups, ROOT, << >>))

\* generate_descriptions has grouped the files.
Grouped == files_by_dir # << >>

\* C14: the group named "root" holds exactly the files without a parent
\* directory, so no group holds files of two directories, and in the returned
\* map every directory has a key of its own: the root, when it has files, and
\* each directory of the flat directory list, a top-level directory named
\* root included.
C14_RootGroupExact ==
    /\ Grouped =>
          /\ RootGroup = RootFiles
          /\ \A d \in DOMAIN files_by_dir.groups :
                \A f, g \in Range(files_by_dir.groups[d]) :
                    dirname(f.relative_path) = dirname(g.relative_path)
    /\ (Grouped /\ Described) =>
          Cardinality(DOMAIN descriptions.directories)
              = Cardinality(Range(project_info.directories))
                  + (IF RootFiles = {} THEN 0 ELSE 1)

---------------------------------------------------------------------------
(* Properties of the statistics of analyze_directory *)

\* The number of nodes of one type in a structural tree, at every depth.
RECURSIVE CountNodes(_, _)
CountNodes(items, type) ==
    IF items = << >> THEN 0
    ELSE LET n == Head(items)
         IN  (IF n.type = type THEN 1 ELSE 0)
             + (IF n.type = "directory" THEN CountNodes(n.items, type) ELSE 0)
             + CountNodes(Tail(items), type)

\* The file records that are code.
CodeRecords ==
    { i \in 1..Len(project_info.files) : Get(project_info.files[i], "is_code", FALSE) }

\* C15: after every successful analyze_directory the statistics agree with
\* the flat lists and the structural tree. total_files is the length of the
\* flat file list and at most MAX_FILES, total_directories the length of the
\* flat directory list, code_files the number of file records that are code,
\* and the tree has total_files file nodes and total_directories directory
\* nodes.
C15_StatisticsAgree ==
    pc = "scanned" =>
        LET stats == project_info.statistics
        IN  /\ stats.total_files = Len(project_info.files)
            /\ stats.total_files <= MAX_FILES
            /\ stats.total_directories = Len(project_info.directories)
            /\ stats.code_files = Cardinality(CodeRecords)
            /\ CountNodes(project_info.structure, "file") = stats.total_files
            /\ CountNodes(project_info.structure, "directory") = stats.total_directories

\* analyze_directory has returned the model of a project with code files,
\* other files, a file whose stat failed, and an unreadable directory.
C15_Witness ==
    /\ pc = "scanned"
    /\ project_info.statistics.code_files > 0
    /\ project_info.statistics.code_files < project_info.statistics.total_files
    /\ \E f \in Range(project_info.files) : "error" \in DOMAIN f
    /\ LockedDirs # {}
    /\ \E n \in AllNodes(project_info.structure) : n.type = "directory" /\ n.items # << >>

\* analyze_directory has returned the model of a project of MAX_FILES files
\* in directories at several depths.
C15_WitnessAtCeiling ==
    /\ pc = "scanned"
    /\ project_info.statistics.total_files = MAX_FILES
    /\ project_info.statistics.total_directories >= 2

====
